---- MODULE Spec2Model ----
(***************************************************************************)
(* Trivia mini-game (junebug): the round / timer / session state machine   *)
(* of QuestionChallengeComponent (src/src/app/home/home.component.ts) and  *)
(* the parts of QuestionChallengeHomeComponent that drive it               *)
(* (src/src/app/question-challenge-home/question-challenge-home.component  *)
(* .ts).                                                                   *)
(*                                                                         *)
(* One game component instance is followed from its construction to its   *)
(* teardown.  The sounds and the round theme (roundTheme, a random index   *)
(* into themes) are presentation only and are left out: no handler reads   *)
(* them.                                                                   *)
(*                                                                         *)
(* JavaScript values are modelled as follows.                              *)
(*   string            a TLA+ string (Len, SubSeq and \o act on it)        *)
(*   number | null     the set {n} for the number n, {} for null           *)
(*   number (or NaN)   the set {n} for the number n, {} for NaN            *)
(*   interval handle   a positive integer; 0 stands for null (both falsy)  *)
(***************************************************************************)
EXTENDS Integers, Sequences, FiniteSets, TLC

\* ------------------------------------------------------------------------
\* Bounds of the model
\* ------------------------------------------------------------------------

\* nextRound is not taken once the round counter has reached this value
MaxRound == 2

\* startGame is not taken while this many deferred callbacks are pending
MaxPendingStarts == 1

\* the FileReaders that may be reading at a time
MaxPendingReads == 1

\* the length of the texts enumerated over CsvAlphabet
MaxTextLen == 4

\* the data lines of the files built from DataLineChoices
MaxDataLines == 2

\* ------------------------------------------------------------------------
\* Program constants
\* ------------------------------------------------------------------------

\* private questionsPerRound = 4
DefaultQuestionsPerRound == 4

\* private timeLimitSeconds = 90; timeRemaining = signal(90)
DefaultTimeLimitSeconds == 90

\* ------------------------------------------------------------------------
\* JavaScript helpers
\* ------------------------------------------------------------------------

Null == {}

NaN == {}

Num(n) == {n}

\* a === b for a, b of type number | null | NaN where at most one side is null
StrictEq(a, b) == a # {} /\ a = b

CharAt(s, i) == SubSeq(s, i, i)

IsSpace(c) == c \in {" ", "\t", "\r", "\n"}

RECURSIVE TrimStart(_)
TrimStart(s) ==
    IF Len(s) > 0 /\ IsSpace(CharAt(s, 1)) THEN TrimStart(Tail(s)) ELSE s

RECURSIVE TrimEnd(_)
TrimEnd(s) ==
    IF Len(s) > 0 /\ IsSpace(CharAt(s, Len(s)))
    THEN TrimEnd(SubSeq(s, 1, Len(s) - 1))
    ELSE s

\* String.prototype.trim
Trim(s) == TrimEnd(TrimStart(s))

\* String.prototype.split(sep) for a one-character separator: the pieces
\* between the separators, the empty ones included
RECURSIVE SplitFrom(_, _, _, _)
SplitFrom(s, sep, i, cur) ==
    IF i > Len(s) THEN <<cur>>
    ELSE IF CharAt(s, i) = sep THEN <<cur>> \o SplitFrom(s, sep, i + 1, "")
    ELSE SplitFrom(s, sep, i + 1, cur \o CharAt(s, i))

Split(s, sep) == SplitFrom(s, sep, 1, "")

DigitValue(c) ==
    CASE c = "0" -> 0 [] c = "1" -> 1 [] c = "2" -> 2 [] c = "3" -> 3
      [] c = "4" -> 4 [] c = "5" -> 5 [] c = "6" -> 6 [] c = "7" -> 7
      [] c = "8" -> 8 [] c = "9" -> 9

IsDigit(c) == c \in {"0", "1", "2", "3", "4", "5", "6", "7", "8", "9"}

\* the value of the longest prefix of digits of s from position i on, acc
\* being the value of the digits read so far
RECURSIVE DigitsFrom(_, _, _)
DigitsFrom(s, i, acc) ==
    IF i <= Len(s) /\ IsDigit(CharAt(s, i))
    THEN DigitsFrom(s, i + 1, 10 * acc + DigitValue(CharAt(s, i)))
    ELSE acc

\* parseInt(s), radix 10: leading white space is skipped, one sign is read,
\* then the longest prefix of digits; NaN when there is no digit
ParseInt(s) ==
    LET t    == TrimStart(s)
        neg  == Len(t) > 0 /\ CharAt(t, 1) = "-"
        sgn  == Len(t) > 0 /\ CharAt(t, 1) \in {"-", "+"}
        body == IF sgn THEN Tail(t) ELSE t
    IN  IF Len(body) = 0 \/ ~IsDigit(CharAt(body, 1)) THEN NaN
        ELSE Num((IF neg THEN -1 ELSE 1) * DigitsFrom(body, 1, 0))

\* n - 1 on a number that may be NaN
MinusOne(v) == {n - 1 : n \in v}

\* ------------------------------------------------------------------------
\* QuestionChallengeComponent: the built-in question file
\* ------------------------------------------------------------------------

\* csvText.split('\n').filter(line => line.trim())
RECURSIVE NonBlankLines(_)
NonBlankLines(lines) ==
    IF lines = <<>> THEN <<>>
    ELSE (IF Len(Trim(Head(lines))) > 0 THEN <<Head(lines)>> ELSE <<>>)
         \o NonBlankLines(Tail(lines))

\* the loop of parseCSV from line i on (1-based here): a line of at least six
\* comma-separated parts gives one question, any other line gives nothing
RECURSIVE QuestionsOfLines(_, _)
QuestionsOfLines(lines, i) ==
    IF i > Len(lines) THEN <<>>
    ELSE LET line  == Trim(lines[i])
             parts == Split(line, ",")
         IN  (IF Len(line) > 0 /\ Len(parts) >= 6
              THEN << [question |-> parts[1],
                       answers  |-> <<parts[2], parts[3], parts[4], parts[5]>>,
                       correct  |-> MinusOne(ParseInt(parts[6]))] >>
              ELSE <<>>)
             \o QuestionsOfLines(lines, i + 1)

\* QuestionChallengeComponent.parseCSV: the questions it pushes onto
\* allQuestions; the header line is skipped
GameParseCSV(csvText) == QuestionsOfLines(NonBlankLines(Split(csvText, "\n")), 2)

\* ------------------------------------------------------------------------
\* QuestionChallengeHomeComponent: the CSV parser
\* ------------------------------------------------------------------------

\* csvText[i], undefined (here the empty string) past the end
CharOrNone(t, i) == IF i >= 1 /\ i <= Len(t) THEN CharAt(t, i) ELSE ""

\* currentField.trim(), whether or not the field started with a quote
EmitFieldTrimmed(field, startedWithQuote) == Trim(field)

\* fieldStartedWithQuote ? currentField : currentField.trim()
EmitField(field, startedWithQuote) == IF startedWithQuote THEN field ELSE Trim(field)

\* currentRow.some(field => field.length > 0)
SomeFieldNonEmpty(row) == \E k \in 1..Len(row) : Len(row[k]) > 0

\* rows.push(currentRow) without its if
PushRowAlways(rows, row) == Append(rows, row)

\* rows.push(currentRow) under its if
PushRow(rows, row) == IF SomeFieldNonEmpty(row) THEN Append(rows, row) ELSE rows

\* the character loop without the branch for a doubled quote: every quote
\* after the opening one toggles quoted mode
RECURSIVE ScanFieldNoEscape(_, _, _, _, _)
ScanFieldNoEscape(t, i, field, inQuotes, startedWithQuote) ==
    IF i > Len(t)
    THEN [field |-> EmitField(field, startedWithQuote), next |-> i, end |-> "input",
          inQuotes |-> inQuotes]
    ELSE LET char     == CharAt(t, i)
             nextChar == CharOrNone(t, i + 1)
         IN  IF char = "\""
             THEN IF field = "" /\ ~inQuotes
                  THEN ScanFieldNoEscape(t, i + 1, field, TRUE, TRUE)
                  ELSE ScanFieldNoEscape(t, i + 1, field, ~inQuotes, startedWithQuote)
             ELSE IF char = "," /\ ~inQuotes
             THEN [field |-> EmitField(field, startedWithQuote), next |-> i + 1,
                   end |-> "field",
          inQuotes |-> inQuotes]
             ELSE IF char \in {"\n", "\r"} /\ ~inQuotes
             THEN [field |-> EmitField(field, startedWithQuote),
                   next |-> IF char = "\r" /\ nextChar = "\n" THEN i + 2 ELSE i + 1,
                   end |-> "row",
          inQuotes |-> inQuotes]
             ELSE ScanFieldNoEscape(t, i + 1, field \o char, inQuotes, startedWithQuote)

\* the character loop of parseCSV from position i (1-based here) inside one
\* field, up to the separator that ends the field: the field pushed, the
\* position after the separator, and whether a comma ("field"), a row
\* separator ("row") or the end of the text ("input") ended it, and inQuotes
\* at that point
RECURSIVE ScanField(_, _, _, _, _)
ScanField(t, i, field, inQuotes, startedWithQuote) ==
    IF i > Len(t)
    THEN [field |-> EmitField(field, startedWithQuote), next |-> i, end |-> "input",
          inQuotes |-> inQuotes]
    ELSE LET char     == CharAt(t, i)
             nextChar == CharOrNone(t, i + 1)
         IN  IF char = "\""
             THEN IF field = "" /\ ~inQuotes
                  THEN ScanField(t, i + 1, field, TRUE, TRUE)
                  ELSE IF inQuotes /\ nextChar = "\""
                  THEN ScanField(t, i + 2, field \o "\"", inQuotes, startedWithQuote)
                  ELSE IF inQuotes
                  THEN ScanField(t, i + 1, field, FALSE, startedWithQuote)
                  ELSE ScanField(t, i + 1, field \o char, inQuotes, startedWithQuote)
             ELSE IF char = "," /\ ~inQuotes
             THEN [field |-> EmitField(field, startedWithQuote), next |-> i + 1,
                   end |-> "field",
          inQuotes |-> inQuotes]
             ELSE IF char \in {"\n", "\r"} /\ ~inQuotes
             THEN [field |-> EmitField(field, startedWithQuote),
                   next |-> IF char = "\r" /\ nextChar = "\n" THEN i + 2 ELSE i + 1,
                   end |-> "row",
          inQuotes |-> inQuotes]
             ELSE ScanField(t, i + 1, field \o char, inQuotes, startedWithQuote)

\* the character loop of parseCSV without the flush of the last field and row
RECURSIVE ParseFromNoFlush(_, _, _, _)
ParseFromNoFlush(t, i, rows, row) ==
    LET scanned == ScanField(t, i, "", FALSE, FALSE)
    IN  IF scanned.end = "field"
        THEN ParseFromNoFlush(t, scanned.next, rows, Append(row, scanned.field))
        ELSE IF scanned.end = "row"
        THEN ParseFromNoFlush(t, scanned.next, PushRow(rows, Append(row, scanned.field)),
                              <<>>)
        ELSE rows

\* the character loop of parseCSV from the start of a field at position i on,
\* then the flush of the last field and row
RECURSIVE ParseFrom(_, _, _, _)
ParseFrom(t, i, rows, row) ==
    LET scanned == ScanField(t, i, "", FALSE, FALSE)
    IN  IF scanned.end = "field"
        THEN ParseFrom(t, scanned.next, rows, Append(row, scanned.field))
        ELSE IF scanned.end = "row"
        THEN ParseFrom(t, scanned.next, PushRow(rows, Append(row, scanned.field)), <<>>)
        ELSE PushRow(rows, Append(row, scanned.field))

\* QuestionChallengeHomeComponent.parseCSV
ParseCSV(csvText) == ParseFrom(csvText, 1, <<>>, <<>>)

\* the character loop of the parseCSV declared without fieldStartedWithQuote:
\* a quote that is not the first of a doubled quote in quoted mode toggles
\* quoted mode, and every field is pushed trimmed
RECURSIVE ScanFieldTrimAll(_, _, _, _)
ScanFieldTrimAll(t, i, field, inQuotes) ==
    IF i > Len(t)
    THEN [field |-> Trim(field), next |-> i, end |-> "input"]
    ELSE LET char     == CharAt(t, i)
             nextChar == CharOrNone(t, i + 1)
         IN  IF char = "\""
             THEN IF inQuotes /\ nextChar = "\""
                  THEN ScanFieldTrimAll(t, i + 2, field \o "\"", inQuotes)
                  ELSE ScanFieldTrimAll(t, i + 1, field, ~inQuotes)
             ELSE IF char = "," /\ ~inQuotes
             THEN [field |-> Trim(field), next |-> i + 1, end |-> "field"]
             ELSE IF char \in {"\n", "\r"} /\ ~inQuotes
             THEN [field |-> Trim(field),
                   next |-> IF char = "\r" /\ nextChar = "\n" THEN i + 2 ELSE i + 1,
                   end |-> "row"]
             ELSE ScanFieldTrimAll(t, i + 1, field \o char, inQuotes)

RECURSIVE ParseFromTrimAll(_, _, _, _)
ParseFromTrimAll(t, i, rows, row) ==
    LET scanned == ScanFieldTrimAll(t, i, "", FALSE)
    IN  IF scanned.end = "field"
        THEN ParseFromTrimAll(t, scanned.next, rows, Append(row, scanned.field))
        ELSE IF scanned.end = "row"
        THEN ParseFromTrimAll(t, scanned.next, PushRow(rows, Append(row, scanned.field)),
                              <<>>)
        ELSE PushRow(rows, Append(row, scanned.field))

\* QuestionChallengeHomeComponent.parseCSV as declared without
\* fieldStartedWithQuote
ParseCSVTrimAll(csvText) == ParseFromTrimAll(csvText, 1, <<>>, <<>>)

\* ------------------------------------------------------------------------
\* QuestionChallengeHomeComponent: validation
\* ------------------------------------------------------------------------

\* the values j of one run of shuffleArray on four elements, for i = 3, 2, 1:
\* Math.floor(Math.random() * (i + 1)) is any of 0..i
ShufflePicks == { <<j3, j2, j1>> : j3 \in 0..3, j2 \in 0..2, j1 \in 0..1 }

\* [a[i], a[j]] = [a[j], a[i]] on 0-based positions
Swap(a, i, j) ==
    [k \in 1..Len(a) |-> IF k = i + 1 THEN a[j + 1] ELSE IF k = j + 1 THEN a[i + 1] ELSE a[k]]

\* shuffleArray(array) for an array of four, the random values being picks
ShuffleArray(array, picks) ==
    Swap(Swap(Swap(array, 3, picks[1]), 2, picks[2]), 1, picks[3])

\* Array.prototype.indexOf as a number: the first position, 0-based
IndexOf(a, x) ==
    IF \E k \in 1..Len(a) : a[k] = x
    THEN Num((CHOOSE k \in 1..Len(a) : a[k] = x /\ \A m \in 1..(k - 1) : a[m] # x) - 1)
    ELSE Num(-1)

\* `Line ${i}: `, the 0-based index of the row
LinePrefixFromZero(k) == "Line " \o ToString(k - 1) \o ": "

\* `Line ${i + 1}: ` for the row at 1-based position k of rows
LinePrefix(k) == "Line " \o ToString(k) \o ": "

\* the verdict of the loop body without its test of the trimmed question
RowVerdictNoQuestionCheck(parts, k) ==
    IF Len(parts) = 0 \/ parts[1] = "" THEN [kind |-> "skip"]
    ELSE IF Len(parts) < 5
    THEN [kind |-> "error",
          message |-> LinePrefix(k) \o
                      "Not enough columns (need at least 5: question + 4 answers)"]
    ELSE IF Trim(parts[2]) = ""
    THEN [kind |-> "error", message |-> LinePrefix(k) \o "Correct answer is empty"]
    ELSE IF \E w \in 3..5 : Trim(parts[w]) = ""
    THEN [kind |-> "error",
          message |-> LinePrefix(k) \o "One or more wrong answers are empty"]
    ELSE [kind |-> "accept"]

\* one iteration of the row loop of parseAndValidateCSV on the row at 1-based
\* position k: what it does with the row
RowVerdict(parts, k) ==
    IF Len(parts) = 0 \/ parts[1] = "" THEN [kind |-> "skip"]
    ELSE IF Len(parts) < 5
    THEN [kind |-> "error",
          message |-> LinePrefix(k) \o
                      "Not enough columns (need at least 5: question + 4 answers)"]
    ELSE IF Trim(parts[1]) = ""
    THEN [kind |-> "error", message |-> LinePrefix(k) \o "Question is empty"]
    ELSE IF Trim(parts[2]) = ""
    THEN [kind |-> "error", message |-> LinePrefix(k) \o "Correct answer is empty"]
    ELSE IF \E w \in 3..5 : Trim(parts[w]) = ""
    THEN [kind |-> "error",
          message |-> LinePrefix(k) \o "One or more wrong answers are empty"]
    ELSE [kind |-> "accept"]

\* the question pushed for an accepted row when indexOf looks for the field as
\* parsed instead of the trimmed answer
QuestionOfRowRawIndex(parts, picks) ==
    LET allAnswers      == <<Trim(parts[2]), Trim(parts[3]), Trim(parts[4]), Trim(parts[5])>>
        shuffledAnswers == ShuffleArray(allAnswers, picks)
    IN  [question |-> Trim(parts[1]),
         answers  |-> shuffledAnswers,
         correct  |-> IndexOf(shuffledAnswers, parts[2])]

\* the question pushed for an accepted row, the shuffle drawing picks
QuestionOfRow(parts, picks) ==
    LET correctAnswer   == Trim(parts[2])
        allAnswers      == <<correctAnswer, Trim(parts[3]), Trim(parts[4]), Trim(parts[5])>>
        shuffledAnswers == ShuffleArray(allAnswers, picks)
    IN  [question |-> Trim(parts[1]),
         answers  |-> shuffledAnswers,
         correct  |-> IndexOf(shuffledAnswers, correctAnswer)]

\* the questions the loop can push for an accepted row, over the values the
\* shuffle can draw
RowQuestions(parts) == { QuestionOfRow(parts, picks) : picks \in ShufflePicks }

\* the row loop when a row error ends the loop instead of skipping the row
RECURSIVE RowLoopFromFatal(_, _)
RowLoopFromFatal(rows, k) ==
    IF k > Len(rows) THEN {[questions |-> <<>>, errors |-> <<>>]}
    ELSE LET verdict == RowVerdict(rows[k], k)
             rest    == RowLoopFromFatal(rows, k + 1)
         IN  IF verdict.kind = "accept"
             THEN { [questions |-> <<q>> \o r.questions, errors |-> r.errors] :
                      q \in RowQuestions(rows[k]), r \in rest }
             ELSE IF verdict.kind = "error"
             THEN {[questions |-> <<>>, errors |-> <<verdict.message>>]}
             ELSE rest

\* the row loop of parseAndValidateCSV from position k on: the questions and
\* errorMessages it can add, over the values its shuffles can draw
RECURSIVE RowLoopFrom(_, _)
RowLoopFrom(rows, k) ==
    IF k > Len(rows) THEN {[questions |-> <<>>, errors |-> <<>>]}
    ELSE LET verdict == RowVerdict(rows[k], k)
             rest    == RowLoopFrom(rows, k + 1)
         IN  IF verdict.kind = "accept"
             THEN { [questions |-> <<q>> \o r.questions, errors |-> r.errors] :
                      q \in RowQuestions(rows[k]), r \in rest }
             ELSE IF verdict.kind = "error"
             THEN { [questions |-> r.questions, errors |-> <<verdict.message>> \o r.errors] :
                      r \in rest }
             ELSE rest

\* the row loop of parseAndValidateCSV, which skips the header row: every
\* (questions, errorMessages) it can end with
RowLoop(rows) == RowLoopFrom(rows, 2)

\* the number of rows the loop accepts
AcceptedCount(rows) ==
    Cardinality({ k \in 2..Len(rows) : RowVerdict(rows[k], k).kind = "accept" })

\* ------------------------------------------------------------------------
\* Inputs of the model
\* ------------------------------------------------------------------------

\* the question set the home component holds after an accepted upload
UploadedBank ==
    << [question |-> "Q1", answers |-> <<"a", "b", "c", "d">>, correct |-> Num(0)],
       [question |-> "Q2", answers |-> <<"e", "f", "g", "h">>, correct |-> Num(2)] >>

\* a file whose two data rows are valid; UploadedBank is one of the question
\* sets parseAndValidateCSV stores for it
UploadFile ==
    [name |-> "questions.csv",
     text |-> "Question,Correct,W1,W2,W3\nQ1,a,b,c,d\nQ2,g,e,f,h\n"]

\* a file whose two data rows are valid, the answers of a row being equal
TwoRowFile ==
    [name |-> "two.csv", text |-> "Question,Correct,W1,W2,W3\nQ1,a,a,a,a\nQ2,c,c,c,c\n"]

\* a file with one valid row and one row that is too short
PartialFile ==
    [name |-> "ONE.CSV", text |-> "Question,Correct,W1,W2,W3\nQ1,a,a,a,a\nQ2,x\n"]

\* a file none of whose four data rows is valid
RejectedFile ==
    [name |-> "bad.csv", text |-> "Question,Correct,W1,W2,W3\nx,1\n\" \",a,b,c,d\nz,3\nw,4\n"]

\* a file whose only data row is too short
OneErrorFile == [name |-> "short.csv", text |-> "Question,Correct,W1,W2,W3\nQ1,a,b,c\n"]

\* a file with a header only
HeaderOnlyFile == [name |-> "empty.csv", text |-> "Question,Correct,W1,W2,W3\n"]

\* a file that is not a .csv file
TextFile == [name |-> "notes.txt", text |-> "Q1,a,b,c,d\n"]

\* the files the user selects in the file input
FileChoices ==
    {TwoRowFile, PartialFile, RejectedFile, OneErrorFile, HeaderOnlyFile, TextFile}

\* the characters of the texts parsed on their own
CsvAlphabet == {"a", ",", "\"", "\n", "\r", " "}

\* every text of at most n characters of CsvAlphabet
RECURSIVE TextsUpTo(_)
TextsUpTo(n) ==
    IF n = 0 THEN {""}
    ELSE LET shorter == TextsUpTo(n - 1)
         IN  shorter \cup { t \o c : t \in shorter, c \in CsvAlphabet }

\* the data lines of the files parsed on their own: valid rows (answers all
\* distinct; a quoted answer with a leading blank and a repeated answer; a
\* quoted question over two lines; doubled quotes), a short row, a short row
\* with an empty first field, a blank line, a row whose question is blank
DataLineChoices ==
    { "Q1,a,b,c,d",
      "Q2,\" g\",e,e,g",
      "\"m1\nm2\",A,A,A,A",
      "Q5,\"He said \"\"hi\"\"\",b,b,b",
      "Q3,x",
      ",x",
      "",
      "\" \",a,b,c,d",
      ",a,b,c,d" }

\* a header line followed by at most n data lines, each ended by a newline
RECURSIVE FilesUpTo(_)
FilesUpTo(n) ==
    IF n = 0 THEN {"Question,Correct,W1,W2,W3\n"}
    ELSE LET shorter == FilesUpTo(n - 1)
         IN  shorter \cup { t \o line \o "\n" : t \in shorter, line \in DataLineChoices }

\* a header and a row whose first field is quoted and holds a line break
MultiLineText == "h,a,b,c,d\n\"line1\nline2\",A,B,C,D"

\* a quoted field that holds doubled quotes
EscapedQuoteText == "\"He said \"\"hi\"\"\""

\* the texts handed to parseCSV on their own
CsvTextChoices ==
    TextsUpTo(MaxTextLen) \cup FilesUpTo(MaxDataLines)
        \cup {UploadFile.text, MultiLineText, EscapedQuoteText}

\* what the questions input of the game component is bound to
InputQuestionChoices == {<<>>, UploadedBank}

\* what assets/questions.csv may hold
DefaultCsvChoices == {"question,a1,a2,a3,a4,correct\nD1,a,b,c,d,3\n"}

\* assets/questions.csv with a sixth column that is a number in 1..4, not a
\* number, above 4, or 0
BuiltInCsvChoices ==
    DefaultCsvChoices \cup
        {"question,a1,a2,a3,a4,correct\nD1,a,b,c,d,x\n",
         "question,a1,a2,a3,a4,correct\nD1,a,b,c,d,7\n",
         "question,a1,a2,a3,a4,correct\nD1,a,b,c,d,0\n"}

\* the values the home component offers for questionsPerRound and timeLimit
QuestionsPerRoundChoices == {1, 2}

TimeLimitChoices == {1, 2}

\* the answer buttons the player presses (answerIndex)
AnswerChoices == {0, 2}

\* the keys of the keydown events
KeyChoices == {"Enter", "a"}

\* ------------------------------------------------------------------------
\* State
\* ------------------------------------------------------------------------

VARIABLES
    questionSets,        \* QuestionState[]: [question, selected]
    timeRemaining,
    roundComplete,
    timeExpired,
    showCongratulations,
    currentRound,
    currentRoundCorrect,
    currentRoundTotal,
    cumulativeCorrect,
    cumulativeTotal,
    allQuestions,
    timerInterval,       \* the handle setInterval returned, 0 for null
    questionsPerRound,
    timeLimitSeconds,
    liveIntervals,       \* the handles of the intervals that are armed
    lifecycle,           \* "constructed", "initialized" (ngOnInit ran), "destroyed"
    fetchPending,        \* loadQuestions awaits fetch('assets/questions.csv')
    gameStarted,         \* QuestionChallengeHomeComponent.gameStarted
    pendingStarts,       \* setTimeout callbacks of startGame not yet run
    questionsLoaded,     \* the fields of QuestionChallengeHomeComponent
    uploadError,         \* string | null: {message} or Null
    fileName,            \* string | null: {name} or Null
    questionCount,
    homeQuestionsPerRound, \* its questionsPerRound signal
    homeTimeLimit,       \* its timeLimit signal
    uploadedQuestions,
    pendingReads,        \* the files whose FileReader has not fired onload yet
    csvInput,            \* a text handed to parseCSV on its own
    csvRows,             \* what parseCSV returned for it
    csvOutcome,          \* the questions and errorMessages of the row loop on csvRows
    csvStage             \* "idle", "text", "parsed", "validated"

roundVars == <<questionSets, timeRemaining, roundComplete, timeExpired,
               showCongratulations, currentRoundCorrect, currentRoundTotal>>

timerVars == <<timerInterval, liveIntervals>>

sessionVars == <<currentRound, cumulativeCorrect, cumulativeTotal>>

configVars == <<questionsPerRound, timeLimitSeconds>>

hostVars == <<lifecycle, fetchPending, gameStarted, pendingStarts>>

homeVars == <<questionsLoaded, uploadError, fileName, questionCount,
              homeQuestionsPerRound, homeTimeLimit, uploadedQuestions, pendingReads>>

csvVars == <<csvInput, csvRows, csvOutcome, csvStage>>

gameVars == <<roundVars, timerVars, sessionVars, configVars, allQuestions, lifecycle,
              fetchPending>>

vars == <<roundVars, timerVars, sessionVars, configVars, allQuestions, hostVars,
          homeVars, csvVars>>

\* the fields of a freshly constructed QuestionChallengeComponent, under a home
\* component that shows its menu
GameConstructed ==
    /\ questionSets = <<>>
    /\ timeRemaining = DefaultTimeLimitSeconds
    /\ roundComplete = FALSE
    /\ timeExpired = FALSE
    /\ showCongratulations = FALSE
    /\ currentRound = 1
    /\ currentRoundCorrect = 0
    /\ currentRoundTotal = 0
    /\ cumulativeCorrect = 0
    /\ cumulativeTotal = 0
    /\ allQuestions = <<>>
    /\ timerInterval = 0
    /\ questionsPerRound = DefaultQuestionsPerRound
    /\ timeLimitSeconds = DefaultTimeLimitSeconds
    /\ liveIntervals = {}
    /\ lifecycle = "constructed"
    /\ fetchPending = FALSE
    /\ gameStarted = FALSE
    /\ pendingStarts = 0

\* the fields of a freshly constructed QuestionChallengeHomeComponent
HomeConstructed ==
    /\ questionsLoaded = FALSE
    /\ uploadError = Null
    /\ fileName = Null
    /\ questionCount = 0
    /\ homeQuestionsPerRound = DefaultQuestionsPerRound
    /\ homeTimeLimit = DefaultTimeLimitSeconds
    /\ uploadedQuestions = <<>>
    /\ pendingReads = {}

\* the home component after parseAndValidateCSV accepted UploadFile with the
\* shuffles that give UploadedBank, the menu set to (count, limit)
HomeAccepted(count, limit) ==
    /\ questionsLoaded = TRUE
    /\ uploadError = Null
    /\ fileName = {UploadFile.name}
    /\ questionCount = Len(UploadedBank)
    /\ homeQuestionsPerRound = count
    /\ homeTimeLimit = limit
    /\ uploadedQuestions = UploadedBank
    /\ pendingReads = {}

\* no text is being parsed on its own
CsvIdle ==
    /\ csvInput = ""
    /\ csvRows = <<>>
    /\ csvOutcome = [questions |-> <<>>, errors |-> <<>>]
    /\ csvStage = "idle"

\* a freshly constructed game component under a home component that holds an
\* accepted upload and some setting of its menu
Init ==
    /\ GameConstructed
    /\ \E count \in QuestionsPerRoundChoices, limit \in TimeLimitChoices :
         HomeAccepted(count, limit)
    /\ CsvIdle

\* both components freshly constructed
InitHome ==
    /\ GameConstructed
    /\ HomeConstructed
    /\ CsvIdle

\* ------------------------------------------------------------------------
\* QuestionChallengeComponent: timer
\* ------------------------------------------------------------------------

\* clearInterval(handle), guarded by if (this.timerInterval): the armed
\* intervals that remain
LiveAfterStop(handle, live) == IF handle # 0 THEN live \ {handle} ELSE live

\* the handle setInterval returns: a positive integer no armed interval has
NewHandle(live) ==
    CHOOSE h \in 1..(Cardinality(live) + 1) :
        h \notin live /\ \A k \in 1..(h - 1) : k \in live

\* stopTimer()
StopTimer ==
    /\ liveIntervals' = LiveAfterStop(timerInterval, liveIntervals)
    /\ timerInterval' = 0

\* startTimer() without its stopTimer() call
LiveAfterStartNoStop(handle, live) == live \cup {NewHandle(live)}

\* the armed intervals once startTimer() has run: stopTimer(), then setInterval
LiveAfterStart(handle, live) ==
    LET stopped == LiveAfterStop(handle, live)
    IN  stopped \cup {NewHandle(stopped)}

\* the handle startTimer() stores
HandleAfterStart(handle, live) == NewHandle(LiveAfterStop(handle, live))

\* startTimer()
StartTimer ==
    /\ liveIntervals' = LiveAfterStart(timerInterval, liveIntervals)
    /\ timerInterval' = HandleAfterStart(timerInterval, liveIntervals)

\* ------------------------------------------------------------------------
\* QuestionChallengeComponent: rounds
\* ------------------------------------------------------------------------

Min(a, b) == IF a < b THEN a ELSE b

Max(a, b) == IF a > b THEN a ELSE b

\* Array.prototype.slice(0, count)
SlicePrefix(seq, count) ==
    SubSeq(seq, 1, IF count < 0 THEN Max(Len(seq) + count, 0) ELSE Min(count, Len(seq)))

\* [...bank].sort(() => Math.random() - 0.5): any order of the bank
Shuffles(bank) ==
    LET n == Len(bank)
    IN  { [i \in 1..n |-> bank[p[i]]] :
            p \in { f \in [1..n -> 1..n] : \A i, j \in 1..n : i # j => f[i] # f[j] } }

\* selectRandomQuestions(count): every result it can return
SelectRandomQuestions(bank, count) == { SlicePrefix(sh, count) : sh \in Shuffles(bank) }

\* startNewRound() without its reset of showCongratulations
StartNewRoundKeepsCongratulations(bank, count, limit) ==
    /\ \E selected \in SelectRandomQuestions(bank, count) :
         questionSets' = [i \in 1..Len(selected) |->
                            [question |-> selected[i], selected |-> Null]]
    /\ timeRemaining' = limit
    /\ roundComplete' = FALSE
    /\ timeExpired' = FALSE
    /\ UNCHANGED showCongratulations
    /\ currentRoundCorrect' = 0
    /\ currentRoundTotal' = 0
    /\ StartTimer

\* startNewRound() on the bank `bank` (allQuestions at the call) under the
\* configuration (count, limit)
StartNewRound(bank, count, limit) ==
    /\ \E selected \in SelectRandomQuestions(bank, count) :
         questionSets' = [i \in 1..Len(selected) |->
                            [question |-> selected[i], selected |-> Null]]
    /\ timeRemaining' = limit
    /\ roundComplete' = FALSE
    /\ timeExpired' = FALSE
    /\ showCongratulations' = FALSE
    /\ currentRoundCorrect' = 0
    /\ currentRoundTotal' = 0
    /\ StartTimer

\* questionSets.every(qs => qs.selected !== null)
AllAnswered(sets) == \A i \in 1..Len(sets) : sets[i].selected # Null

\* the forEach loop of submitAnswers: the questions whose selection is the
\* correct index, counted from position i on
RECURSIVE CountCorrectFrom(_, _)
CountCorrectFrom(sets, i) ==
    IF i > Len(sets) THEN 0
    ELSE (IF StrictEq(sets[i].selected, sets[i].question.correct) THEN 1 ELSE 0)
         + CountCorrectFrom(sets, i + 1)

\* the loop without its comparison: every answered question counts
CountAnswered(sets) == Cardinality({i \in 1..Len(sets) : sets[i].selected # Null})

CountCorrect(sets) == CountCorrectFrom(sets, 1)

\* canSubmit()
CanSubmit == ~roundComplete /\ AllAnswered(questionSets)

\* isCorrectAnswer without its roundComplete() return
IsCorrectAnswerUnguarded(sets, q, a) == StrictEq(sets[q].question.correct, Num(a))

\* isCorrectAnswer(questionIndex, answerIndex) when questionSets is sets; q is
\* questionIndex + 1
IsCorrectAnswerIn(sets, q, a) ==
    IF ~roundComplete THEN FALSE ELSE StrictEq(sets[q].question.correct, Num(a))

\* isWrongAnswer(questionIndex, answerIndex) when questionSets is sets
IsWrongAnswerIn(sets, q, a) ==
    IF ~roundComplete THEN FALSE
    ELSE StrictEq(sets[q].selected, Num(a)) /\ sets[q].selected # sets[q].question.correct

\* isSelected(questionIndex, answerIndex)
IsSelected(q, a) == StrictEq(questionSets[q].selected, Num(a))

\* the component is shown and takes the player's events
Playing == lifecycle = "initialized" /\ gameStarted

\* ------------------------------------------------------------------------
\* QuestionChallengeComponent: handlers
\* ------------------------------------------------------------------------

\* loadQuestions(), up to its first await
LoadQuestions == fetchPending' = TRUE

\* ngOnInit(), the questions input holding inputQuestions
NgOnInit(inputQuestions) ==
    /\ lifecycle = "constructed"
    /\ gameStarted
    /\ lifecycle' = "initialized"
    /\ IF Len(inputQuestions) > 0
       THEN /\ allQuestions' = inputQuestions
            /\ StartNewRound(inputQuestions, questionsPerRound, timeLimitSeconds)
            /\ UNCHANGED fetchPending
       ELSE /\ LoadQuestions
            /\ UNCHANGED <<allQuestions, roundVars, timerVars>>
    /\ UNCHANGED <<sessionVars, configVars, gameStarted, pendingStarts>>
    /\ UNCHANGED <<homeVars, csvVars>>

\* loadQuestions() after its awaits: the fetch answered with csvText
FetchResolve(csvText) ==
    /\ fetchPending
    /\ fetchPending' = FALSE
    /\ allQuestions' = allQuestions \o GameParseCSV(csvText)
    /\ StartNewRound(allQuestions', questionsPerRound, timeLimitSeconds)
    /\ UNCHANGED <<sessionVars, configVars, lifecycle, gameStarted, pendingStarts>>
    /\ UNCHANGED <<homeVars, csvVars>>

\* loadQuestions(): the fetch failed and the catch block logs the error
FetchReject ==
    /\ fetchPending
    /\ fetchPending' = FALSE
    /\ UNCHANGED <<roundVars, timerVars, sessionVars, configVars, allQuestions,
                   lifecycle, gameStarted, pendingStarts>>
    /\ UNCHANGED <<homeVars, csvVars>>

\* loadQuestionsFromData(questions) under the configuration (count, limit)
LoadQuestionsFromData(questions, count, limit) ==
    /\ allQuestions' = questions
    /\ IF Len(questions) > 0
       THEN StartNewRound(questions, count, limit)
       ELSE UNCHANGED <<roundVars, timerVars>>

\* the interval callback without its decrement of timeRemaining
TickNoCountdown(h) ==
    /\ h \in liveIntervals
    /\ IF timeRemaining > 0
       THEN UNCHANGED <<timeRemaining, timerVars, timeExpired, roundComplete>>
       ELSE /\ StopTimer
            /\ timeExpired' = TRUE
            /\ roundComplete' = TRUE
            /\ UNCHANGED timeRemaining
    /\ UNCHANGED <<questionSets, showCongratulations, currentRoundCorrect,
                   currentRoundTotal, sessionVars, configVars, allQuestions, hostVars>>
    /\ UNCHANGED <<homeVars, csvVars>>

\* the interval callback of startTimer(), run for the armed interval h
Tick(h) ==
    /\ h \in liveIntervals
    /\ IF timeRemaining > 0
       THEN /\ timeRemaining' = timeRemaining - 1
            /\ UNCHANGED <<timerVars, timeExpired, roundComplete>>
       ELSE /\ StopTimer
            /\ timeExpired' = TRUE
            /\ roundComplete' = TRUE
            /\ UNCHANGED timeRemaining
    /\ UNCHANGED <<questionSets, showCongratulations, currentRoundCorrect,
                   currentRoundTotal, sessionVars, configVars, allQuestions, hostVars>>
    /\ UNCHANGED <<homeVars, csvVars>>

\* selectAnswer without its roundComplete() return
SelectAnswerUnguarded(q, a) ==
    /\ Playing
    /\ q \in 1..Len(questionSets)
    /\ a \in 0..(Len(questionSets[q].question.answers) - 1)
    /\ questionSets' = [questionSets EXCEPT ![q].selected = Num(a)]
    /\ UNCHANGED <<timeRemaining, roundComplete, timeExpired,
                   showCongratulations, currentRoundCorrect, currentRoundTotal,
                   timerVars, sessionVars, configVars, allQuestions, hostVars>>
    /\ UNCHANGED <<homeVars, csvVars>>

\* selectAnswer(questionIndex, answerIndex); q is questionIndex + 1
SelectAnswer(q, a) ==
    /\ Playing
    /\ q \in 1..Len(questionSets)
    /\ a \in 0..(Len(questionSets[q].question.answers) - 1)
    /\ IF roundComplete
       THEN UNCHANGED vars
       ELSE /\ questionSets' = [questionSets EXCEPT ![q].selected = Num(a)]
            /\ UNCHANGED <<timeRemaining, roundComplete, timeExpired,
                           showCongratulations, currentRoundCorrect, currentRoundTotal,
                           timerVars, sessionVars, configVars, allQuestions, hostVars>>
    /\ UNCHANGED <<homeVars, csvVars>>

\* the early returns of submitAnswers() without the roundComplete() one
SubmitRejectedUnlessAnswered == ~AllAnswered(questionSets)

\* the early returns of submitAnswers()
SubmitRejected == roundComplete \/ ~AllAnswered(questionSets)

\* submitAnswers()
SubmitAnswers ==
    /\ Playing
    /\ IF SubmitRejected
       THEN UNCHANGED vars
       ELSE /\ StopTimer
            /\ roundComplete' = TRUE
            /\ currentRoundCorrect' = CountCorrect(questionSets)
            /\ currentRoundTotal' = Len(questionSets)
            /\ cumulativeCorrect' = cumulativeCorrect + CountCorrect(questionSets)
            /\ cumulativeTotal' = cumulativeTotal + Len(questionSets)
            /\ showCongratulations' = (IF ~timeExpired THEN TRUE ELSE showCongratulations)
            /\ UNCHANGED <<questionSets, timeRemaining, timeExpired, currentRound,
                           configVars, allQuestions, hostVars>>
    /\ UNCHANGED <<homeVars, csvVars>>

\* the body of nextRound()
NextRoundBody ==
    /\ currentRound' = currentRound + 1
    /\ StartNewRound(allQuestions, questionsPerRound, timeLimitSeconds)
    /\ UNCHANGED <<cumulativeCorrect, cumulativeTotal, configVars, allQuestions, hostVars>>
    /\ UNCHANGED <<homeVars, csvVars>>

\* nextRound()
NextRound ==
    /\ Playing
    /\ currentRound < MaxRound
    /\ NextRoundBody

\* handleKeyDown(event), event.key being key
HandleKeyDown(key) ==
    /\ Playing
    /\ IF showCongratulations /\ key \in {"Enter", " "}
       THEN currentRound < MaxRound /\ NextRoundBody
       ELSE UNCHANGED vars

\* goBack() without the reset of the round counter
GoBackKeepsRound ==
    /\ Playing
    /\ StopTimer
    /\ cumulativeCorrect' = 0
    /\ cumulativeTotal' = 0
    /\ currentRoundCorrect' = 0
    /\ currentRoundTotal' = 0
    /\ gameStarted' = FALSE
    /\ UNCHANGED <<questionSets, timeRemaining, roundComplete, timeExpired,
                   showCongratulations, currentRound, configVars, allQuestions,
                   lifecycle, fetchPending, pendingStarts>>
    /\ UNCHANGED <<homeVars, csvVars>>

\* goBack(); the home component answers backToHome with exitGame()
GoBack ==
    /\ Playing
    /\ StopTimer
    /\ cumulativeCorrect' = 0
    /\ cumulativeTotal' = 0
    /\ currentRoundCorrect' = 0
    /\ currentRoundTotal' = 0
    /\ currentRound' = 1
    /\ gameStarted' = FALSE
    /\ UNCHANGED <<questionSets, timeRemaining, roundComplete, timeExpired,
                   showCongratulations, configVars, allQuestions, lifecycle,
                   fetchPending, pendingStarts>>
    /\ UNCHANGED <<homeVars, csvVars>>

\* ngOnDestroy()
NgOnDestroy ==
    /\ lifecycle = "initialized"
    /\ StopTimer
    /\ lifecycle' = "destroyed"
    /\ UNCHANGED <<roundVars, sessionVars, configVars, allQuestions, fetchPending,
                   gameStarted, pendingStarts>>
    /\ UNCHANGED <<homeVars, csvVars>>

\* ------------------------------------------------------------------------
\* QuestionChallengeHomeComponent: starting a game
\* ------------------------------------------------------------------------

\* startGame() without its questionsLoaded() test
StartGameUnguarded ==
    /\ ~gameStarted
    /\ pendingStarts < MaxPendingStarts
    /\ gameStarted' = TRUE
    /\ pendingStarts' = pendingStarts + 1
    /\ UNCHANGED <<roundVars, timerVars, sessionVars, configVars, allQuestions,
                   lifecycle, fetchPending>>
    /\ UNCHANGED <<homeVars, csvVars>>

\* startGame(): when questionsLoaded() holds the game is shown and the
\* configuration callback is scheduled with setTimeout(..., 0). The start
\* button belongs to the menu, which is shown while no game is started.
StartGame ==
    /\ ~gameStarted
    /\ pendingStarts < MaxPendingStarts
    /\ IF questionsLoaded
       THEN /\ gameStarted' = TRUE
            /\ pendingStarts' = pendingStarts + 1
       ELSE UNCHANGED <<gameStarted, pendingStarts>>
    /\ UNCHANGED <<roundVars, timerVars, sessionVars, configVars, allQuestions,
                   lifecycle, fetchPending>>
    /\ UNCHANGED <<homeVars, csvVars>>

\* the setTimeout callback of startGame(): gameComponent is defined while the
\* game component is initialized; count, limit and questions are the home
\* component's questionsPerRound(), timeLimit() and uploadedQuestions
StartGameCallback(count, limit, questions) ==
    /\ pendingStarts > 0
    /\ pendingStarts' = pendingStarts - 1
    /\ IF lifecycle = "initialized"
       THEN /\ questionsPerRound' = count
            /\ timeLimitSeconds' = limit
            /\ LoadQuestionsFromData(questions, count, limit)
       ELSE UNCHANGED <<roundVars, timerVars, configVars, allQuestions>>
    /\ UNCHANGED <<sessionVars, lifecycle, fetchPending, gameStarted>>
    /\ UNCHANGED <<homeVars, csvVars>>

\* ------------------------------------------------------------------------
\* QuestionChallengeHomeComponent: configuration and upload
\* ------------------------------------------------------------------------

\* setQuestionsPerRound(count); the menu is shown while no game is started
SetQuestionsPerRound(count) ==
    /\ ~gameStarted
    /\ homeQuestionsPerRound' = count
    /\ UNCHANGED <<questionsLoaded, uploadError, fileName, questionCount,
                   homeTimeLimit, uploadedQuestions, pendingReads>>
    /\ UNCHANGED <<gameVars, gameStarted, pendingStarts, csvVars>>

\* setTimeLimit(seconds)
SetTimeLimit(seconds) ==
    /\ ~gameStarted
    /\ homeTimeLimit' = seconds
    /\ UNCHANGED <<questionsLoaded, uploadError, fileName, questionCount,
                   homeQuestionsPerRound, uploadedQuestions, pendingReads>>
    /\ UNCHANGED <<gameVars, gameStarted, pendingStarts, csvVars>>

\* String.prototype.toLowerCase on the letters of the file names
LowerOfChar(c) ==
    LET upper == "ABCDEFGHIJKLMNOPQRSTUVWXYZ"
        lower == "abcdefghijklmnopqrstuvwxyz"
    IN  IF \E k \in 1..26 : CharAt(upper, k) = c
        THEN CharAt(lower, CHOOSE k \in 1..26 : CharAt(upper, k) = c)
        ELSE c

RECURSIVE ToLowerCase(_)
ToLowerCase(str) ==
    IF str = "" THEN "" ELSE LowerOfChar(CharAt(str, 1)) \o ToLowerCase(Tail(str))

\* str.endsWith(suffix)
EndsWith(str, suffix) ==
    Len(str) >= Len(suffix) /\ SubSeq(str, Len(str) - Len(suffix) + 1, Len(str)) = suffix

\* file.name.toLowerCase().endsWith('.csv') for the files of FileChoices
HasCsvName == [file \in FileChoices |-> EndsWith(ToLowerCase(file.name), ".csv")]

\* onFileSelected(event), event.target.files[0] being file: a file that is not
\* a .csv file is refused, any other is handed to a FileReader
OnFileSelected(file) ==
    /\ ~gameStarted
    /\ IF ~HasCsvName[file]
       THEN /\ uploadError' = {"Invalid file type. Please upload a .csv file."}
            /\ fileName' = Null
            /\ questionsLoaded' = FALSE
            /\ UNCHANGED pendingReads
       ELSE /\ Cardinality(pendingReads \cup {file}) <= MaxPendingReads
            /\ fileName' = {file.name}
            /\ uploadError' = Null
            /\ pendingReads' = pendingReads \cup {file}
            /\ UNCHANGED questionsLoaded
    /\ UNCHANGED <<questionCount, homeQuestionsPerRound, homeTimeLimit, uploadedQuestions>>
    /\ UNCHANGED <<gameVars, gameStarted, pendingStarts, csvVars>>

\* errorMessages without the slice
AllErrors(errors) == errors

\* errorMessages.slice(0, 3)
FirstThree(errors) == SubSeq(errors, 1, Min(3, Len(errors)))

\* lines.join('\n')
RECURSIVE JoinLines(_)
JoinLines(lines) ==
    IF Len(lines) = 0 THEN ""
    ELSE IF Len(lines) = 1 THEN lines[1]
    ELSE lines[1] \o "\n" \o JoinLines(Tail(lines))

ErrorsFoundMessage(errors) == "Errors found:\n" \o JoinLines(FirstThree(errors))

NeedAtLeastMessage(minRequired, found) ==
    "Need at least " \o ToString(minRequired) \o " valid questions. Found only "
        \o ToString(found) \o "."

\* the aggregate decision when any row error fails the file
AggregateVerdictAnyError(rows, outcome, minQuestions) ==
    IF Len(rows) < 2 THEN "tooShort"
    ELSE IF Len(outcome.errors) > 0 THEN "errors"
    ELSE IF Len(outcome.questions) < minQuestions THEN "tooFew"
    ELSE "accepted"

\* what parseAndValidateCSV decides from the outcome of its row loop:
\* "tooShort", "errors", "tooFew" or "accepted"
AggregateVerdict(rows, outcome, minQuestions) ==
    IF Len(rows) < 2 THEN "tooShort"
    ELSE IF Len(outcome.errors) > 0 /\ Len(outcome.questions) = 0 THEN "errors"
    ELSE IF Len(outcome.questions) < minQuestions THEN "tooFew"
    ELSE "accepted"

\* parseCSV(text) for the files of FileChoices
FileRows == [file \in FileChoices |-> ParseCSV(file.text)]

\* what the row loop of parseAndValidateCSV can produce for the files of
\* FileChoices, over the values its shuffles can draw
FileOutcomes == [file \in FileChoices |-> RowLoop(FileRows[file])]

\* parseAndValidateCSV(csvText), rows being parseCSV(csvText) and outcome what
\* the row loop produced: the aggregate decision and the assignments
ParseAndValidateCSV(rows, outcome) ==
    LET verdict == AggregateVerdict(rows, outcome, homeQuestionsPerRound)
    IN  IF verdict = "accepted"
        THEN /\ uploadedQuestions' = outcome.questions
             /\ questionCount' = Len(outcome.questions)
             /\ questionsLoaded' = TRUE
             /\ uploadError' = Null
        ELSE /\ uploadError' =
                  {IF verdict = "tooShort"
                   THEN "File must contain at least a header and one question."
                   ELSE IF verdict = "errors"
                   THEN ErrorsFoundMessage(outcome.errors)
                   ELSE NeedAtLeastMessage(homeQuestionsPerRound, Len(outcome.questions))}
             /\ questionsLoaded' = FALSE
             /\ UNCHANGED <<uploadedQuestions, questionCount>>

\* reader.onload for a file handed to a FileReader
ReaderLoad(file) ==
    /\ file \in pendingReads
    /\ pendingReads' = pendingReads \ {file}
    /\ \E outcome \in FileOutcomes[file] : ParseAndValidateCSV(FileRows[file], outcome)
    /\ UNCHANGED <<fileName, homeQuestionsPerRound, homeTimeLimit>>
    /\ UNCHANGED <<gameVars, gameStarted, pendingStarts, csvVars>>

\* ------------------------------------------------------------------------
\* Specification
\* ------------------------------------------------------------------------

Next ==
    \/ \E inputQuestions \in InputQuestionChoices : NgOnInit(inputQuestions)
    \/ \E csvText \in DefaultCsvChoices : FetchResolve(csvText)
    \/ FetchReject
    \/ \E h \in liveIntervals : Tick(h)
    \/ \E q \in 1..Len(questionSets), a \in AnswerChoices : SelectAnswer(q, a)
    \/ SubmitAnswers
    \/ NextRound
    \/ \E key \in KeyChoices : HandleKeyDown(key)
    \/ GoBack
    \/ NgOnDestroy
    \/ StartGame
    \/ StartGameCallback(homeQuestionsPerRound, homeTimeLimit, uploadedQuestions)

Spec == Init /\ [][Next]_vars

\* ------------------------------------------------------------------------
\* The parser and the row loop on their own
\* ------------------------------------------------------------------------

\* both components freshly constructed, a text at hand
InitCsv ==
    /\ GameConstructed
    /\ HomeConstructed
    /\ csvInput \in CsvTextChoices
    /\ csvRows = <<>>
    /\ csvOutcome = [questions |-> <<>>, errors |-> <<>>]
    /\ csvStage = "text"

\* const rows = this.parseCSV(csvText)
ParseText ==
    /\ csvStage = "text"
    /\ csvRows' = ParseCSV(csvInput)
    /\ csvStage' = "parsed"
    /\ UNCHANGED <<csvInput, csvOutcome, gameVars, gameStarted, pendingStarts, homeVars>>

\* the row loop of parseAndValidateCSV on the parsed rows, reached when
\* rows.length >= 2
ValidateParsed ==
    /\ csvStage = "parsed"
    /\ Len(csvRows) >= 2
    /\ csvOutcome' \in RowLoop(csvRows)
    /\ csvStage' = "validated"
    /\ UNCHANGED <<csvInput, csvRows, gameVars, gameStarted, pendingStarts, homeVars>>

\* const rows = this.parseCSV(csvText) when the declaration of the class that
\* is in effect is one of those whose parseCSV trims every field
ParseTextTrimAll ==
    /\ csvStage = "text"
    /\ csvRows' = ParseCSVTrimAll(csvInput)
    /\ csvStage' = "parsed"
    /\ UNCHANGED <<csvInput, csvOutcome, gameVars, gameStarted, pendingStarts, homeVars>>

NextCsv == ParseText \/ ValidateParsed

SpecCsv == InitCsv /\ [][NextCsv]_vars

\* setInterval(callback, 1000): an armed interval keeps running its callback
TickFairness == WF_vars(\E h \in liveIntervals : Tick(h))

\* the game played on an uploaded question set with its countdown running and
\* no advance to a further round requested
NextRounds ==
    \/ StartGame
    \/ NgOnInit(uploadedQuestions)
    \/ StartGameCallback(homeQuestionsPerRound, homeTimeLimit, uploadedQuestions)
    \/ \E h \in liveIntervals : Tick(h)
    \/ \E q \in 1..Len(questionSets), a \in AnswerChoices : SelectAnswer(q, a)
    \/ SubmitAnswers
    \/ GoBack
    \/ NgOnDestroy

SpecRounds == Init /\ [][NextRounds]_vars /\ TickFairness

\* the game started without input questions, so that it plays from the
\* built-in question file, whatever that file holds
NextBuiltIn ==
    \/ StartGame
    \/ NgOnInit(<<>>)
    \/ \E csvText \in BuiltInCsvChoices : FetchResolve(csvText)
    \/ FetchReject
    \/ \E h \in liveIntervals : Tick(h)
    \/ \E q \in 1..Len(questionSets), a \in AnswerChoices : SelectAnswer(q, a)
    \/ SubmitAnswers
    \/ NextRound
    \/ NgOnDestroy

SpecBuiltIn == Init /\ [][NextBuiltIn]_vars

\* the file declares QuestionChallengeHomeComponent three times, with two
\* different parseCSV methods: the parser that runs is either of them
NextParsers == ParseText \/ ParseTextTrimAll \/ ValidateParsed

SpecParsers == InitCsv /\ [][NextParsers]_vars

\* the home component with the game component it starts, whose questions
\* input holds what getQuestions() returns
NextHome ==
    \/ \E count \in QuestionsPerRoundChoices : SetQuestionsPerRound(count)
    \/ \E seconds \in TimeLimitChoices : SetTimeLimit(seconds)
    \/ \E file \in FileChoices : OnFileSelected(file)
    \/ \E file \in pendingReads : ReaderLoad(file)
    \/ StartGame
    \/ StartGameCallback(homeQuestionsPerRound, homeTimeLimit, uploadedQuestions)
    \/ NgOnInit(uploadedQuestions)
    \/ NextRound
    \/ GoBack

SpecHome == InitHome /\ [][NextHome]_vars

\* ------------------------------------------------------------------------
\* Vocabulary of the properties
\* ------------------------------------------------------------------------

\* a round is Active: it is not complete and its countdown is armed
RoundActive == ~roundComplete /\ timerInterval # 0

\* every question of the round has a selection
EveryQuestionAnswered == \A i \in 1..Len(questionSets) : questionSets[i].selected # {}

\* the number of questions whose selectedIndex equals their correctIndex
RoundScore ==
    Cardinality({ i \in 1..Len(questionSets) :
                    /\ questionSets[i].selected # {}
                    /\ questionSets[i].selected = questionSets[i].question.correct })

\* ------------------------------------------------------------------------
\* Properties
\* ------------------------------------------------------------------------

\* C1: a round that has received as many ticks as its time limit, so that its
\* remaining time is zero, is no longer Active: the tick that brings the
\* remaining time to zero stops the countdown and ends the round as timed out.
C1_ZeroRemainingEndsRound == RoundActive => timeRemaining > 0

\* C2: while the game is shown, canSubmit() is true exactly when a round is
\* Active and every question of the round has a selection.
C2_CanSubmitIffActiveAndAnswered ==
    Playing => (CanSubmit <=> (RoundActive /\ EveryQuestionAnswered))

\* C3: Submit in an Active round in which every question is answered stops the
\* countdown and completes the round as submitted (timeExpired false) with
\* correctCount the number of questions whose selection is the correct index
\* and totalCount the number of questions of the round.
C3_SubmitScoresRound ==
    [][(SubmitAnswers /\ RoundActive /\ EveryQuestionAnswered) =>
         /\ timerInterval' = 0
         /\ liveIntervals' = {}
         /\ roundComplete'
         /\ ~timeExpired'
         /\ currentRoundCorrect' = RoundScore
         /\ currentRoundTotal' = Len(questionSets)]_vars

\* a submitted round of two questions, one of them answered correctly
C3_Witness ==
    /\ roundComplete /\ ~timeExpired /\ showCongratulations
    /\ timerInterval = 0
    /\ currentRoundTotal = 2 /\ currentRoundCorrect = 1
    /\ RoundScore = 1

\* C4: Submit is a no-op whenever no round is Active or at least one question
\* is unanswered: nothing of the state changes.
C4_SubmitNoOpUnlessReady ==
    [][(SubmitAnswers /\ (~RoundActive \/ ~EveryQuestionAnswered)) => UNCHANGED vars]_vars

\* C5: selectAnswer(q, a) changes nothing once the round is Complete; in an
\* Active round it sets question q's selection to a and leaves the other
\* questions, the countdown, the round state and every score unchanged.
C5_SelectAnswerFrame ==
    [][\A q \in 1..Len(questionSets), a \in AnswerChoices :
         SelectAnswer(q, a) =>
           /\ roundComplete => UNCHANGED vars
           /\ RoundActive =>
                /\ Len(questionSets') = Len(questionSets)
                /\ questionSets'[q].selected = {a}
                /\ questionSets'[q].question = questionSets[q].question
                /\ \A j \in 1..Len(questionSets) : j # q => questionSets'[j] = questionSets[j]
                /\ UNCHANGED <<timeRemaining, roundComplete, timeExpired,
                               showCongratulations, currentRoundCorrect,
                               currentRoundTotal, timerVars, sessionVars>>]_vars

\* an Active round of two questions where the first has a selection and the
\* second has none
C5_Witness ==
    /\ RoundActive
    /\ Len(questionSets) = 2
    /\ questionSets[1].selected = {2}
    /\ questionSets[2].selected = {}

\* C6: at most one countdown interval is armed at any time, and it is the one
\* whose handle the component holds.
C6_AtMostOneCountdown ==
    /\ Cardinality(liveIntervals) <= 1
    /\ liveIntervals \subseteq {timerInterval}

\* a countdown armed in a second round, the first round's being cancelled
C6_Witness == currentRound = 2 /\ Cardinality(liveIntervals) = 1 /\ RoundActive

\* C7: once the component is torn down no countdown is armed, whatever
\* asynchronous completion was pending at that moment.
C7_NoCountdownAfterTeardown == lifecycle = "destroyed" => liveIntervals = {}

\* C8: an advance request (nextRound, or the key handler) in an Active round
\* changes neither the round counter nor the round; in a Complete round in
\* which it takes effect it adds one to the round counter and starts an
\* Active round under the same configuration.
C8_AdvanceOnlyWhenComplete ==
    [][(NextRound \/ \E key \in KeyChoices : HandleKeyDown(key)) =>
         /\ RoundActive => UNCHANGED <<currentRound, roundVars, timerVars>>
         /\ roundComplete =>
              /\ currentRound' = currentRound + 1
              /\ RoundActive'
              /\ UNCHANGED configVars]_vars

\* C9: the cumulative counts grow only when a round is submitted, then by the
\* round's correctCount and totalCount; any other step leaves them unchanged
\* or resets the session, so a round is counted once and a timed-out round
\* adds nothing.
C9_CumulativeIsSumOfSubmitted ==
    [][IF ~roundComplete /\ roundComplete' /\ ~timeExpired'
       THEN /\ cumulativeCorrect' = cumulativeCorrect + RoundScore
            /\ cumulativeTotal' = cumulativeTotal + Len(questionSets)
       ELSE \/ /\ cumulativeCorrect' = cumulativeCorrect
               /\ cumulativeTotal' = cumulativeTotal
            \/ /\ cumulativeCorrect' = 0
               /\ cumulativeTotal' = 0
               /\ currentRound' = 1]_vars

\* two submitted rounds have been accumulated, with a wrong answer among them
C9_Witness ==
    /\ roundComplete /\ ~timeExpired
    /\ currentRoundTotal = 2
    /\ cumulativeTotal = 4
    /\ cumulativeCorrect = 3

\* C10: after goBack, while the menu is shown, the cumulative counts and the
\* current round's counts are 0 and the round counter is 1.
C10_GoBackResetsSession ==
    ~gameStarted =>
        /\ cumulativeCorrect = 0
        /\ cumulativeTotal = 0
        /\ currentRoundCorrect = 0
        /\ currentRoundTotal = 0
        /\ currentRound = 1

\* the menu is shown over a submitted round with a correct answer, whose
\* statistics are gone
C10_Witness ==
    /\ ~gameStarted
    /\ lifecycle = "initialized"
    /\ roundComplete /\ showCongratulations
    /\ RoundScore > 0
    /\ cumulativeCorrect = 0 /\ currentRound = 1

\* a step of the home component and its game that starts a round
StartsRound ==
    \/ NextRound
    \/ NgOnInit(uploadedQuestions) /\ Len(uploadedQuestions) > 0
    \/ /\ StartGameCallback(homeQuestionsPerRound, homeTimeLimit, uploadedQuestions)
       /\ lifecycle = "initialized"
       /\ Len(uploadedQuestions) > 0

\* the round holds exactly questionsPerRound pairwise distinct questions of
\* the bank, none answered, its countdown is at the time limit and it is Active
RoundWellFormed ==
    /\ Len(questionSets) = questionsPerRound
    /\ \A i, j \in 1..Len(questionSets) :
         i # j => questionSets[i].question # questionSets[j].question
    /\ \A i \in 1..Len(questionSets) :
         \E b \in 1..Len(allQuestions) : allQuestions[b] = questionSets[i].question
    /\ \A i \in 1..Len(questionSets) : questionSets[i].selected = Null
    /\ timeRemaining = timeLimitSeconds
    /\ RoundActive

\* C11: over any sequence of uploads, changes of the menu settings, game
\* starts and round advances, every round that is started holds exactly
\* questionsPerRound pairwise distinct questions of the bank, each unanswered,
\* with the countdown at timeLimitSeconds and the round Active.
C11_StartedRoundIsWellFormed == [][StartsRound => RoundWellFormed']_vars

\* C12: while a round is Active, isCorrectAnswer and isWrongAnswer return false
\* for every question and answer index, whatever the correct index of the
\* question is: the displayed round state does not depend on correctIndex
\* before the round is Complete.
C12_NoCorrectnessWhileActive ==
    RoundActive =>
        \A q \in 1..Len(questionSets), a \in 0..3, c \in 0..3 :
            LET other == [questionSets EXCEPT ![q].question.correct = Num(c)]
            IN  /\ ~IsCorrectAnswerIn(questionSets, q, a)
                /\ ~IsWrongAnswerIn(questionSets, q, a)
                /\ IsCorrectAnswerIn(other, q, a) = IsCorrectAnswerIn(questionSets, q, a)
                /\ IsWrongAnswerIn(other, q, a) = IsWrongAnswerIn(questionSets, q, a)
                /\ IsSelected(q, a) = StrictEq(other[q].selected, Num(a))

\* an Active round with a correct and a wrong selection
C12_Witness ==
    /\ RoundActive
    /\ \E q \in 1..Len(questionSets) :
         /\ questionSets[q].selected # Null
         /\ questionSets[q].selected = questionSets[q].question.correct
    /\ \E q \in 1..Len(questionSets) :
         /\ questionSets[q].selected # Null
         /\ questionSets[q].selected # questionSets[q].question.correct

\* a data row is well-formed: at least five fields, the first five non-empty
\* after trimming
WellFormedRow(parts) == Len(parts) >= 5 /\ \A k \in 1..5 : Trim(parts[k]) # ""

SourceRowOf(rows, i) ==
    CHOOSE k \in 2..Len(rows) :
        /\ RowVerdict(rows[k], k).kind = "accept"
        /\ Cardinality({ j \in 2..k : RowVerdict(rows[j], j).kind = "accept" }) = i

\* a and b hold the same texts, each as often in one as in the other
SameTexts(a, b) ==
    /\ Len(a) = Len(b)
    /\ \A i \in 1..Len(a) :
         Cardinality({ j \in 1..Len(a) : a[j] = a[i] })
             = Cardinality({ j \in 1..Len(b) : b[j] = a[i] })

\* C14: for every accepted question and every outcome of the shuffle, the four
\* answers are the four answer texts of the source row in some order, and
\* answers[correctIndex] is the correct-answer text of the source row (its
\* second field).
C14_AnswersRoundTrip ==
    csvStage = "validated" =>
        \A i \in 1..Len(csvOutcome.questions) :
            LET parts    == csvRows[SourceRowOf(csvRows, i)]
                question == csvOutcome.questions[i]
            IN  /\ SameTexts(question.answers, SubSeq(parts, 2, 5))
                /\ \E c \in 0..3 : /\ question.correct = Num(c)
                                    /\ question.answers[c + 1] = parts[2]

\* the error of a row with too few columns that names line n
NotEnoughColumns(n) ==
    "Line " \o ToString(n) \o ": Not enough columns (need at least 5: question + 4 answers)"

\* message is one of the error messages
HasError(errors, message) == \E e \in 1..Len(errors) : errors[e] = message

\* every question comes from a row with at least five fields, and there are
\* no more questions than such rows
QuestionsFromFullRows ==
    /\ Len(csvOutcome.questions)
           <= Cardinality({ k \in 2..Len(csvRows) : Len(csvRows[k]) >= 5 })
    /\ \A i \in 1..Len(csvOutcome.questions) :
         \E k \in 2..Len(csvRows) :
             /\ Len(csvRows[k]) >= 5
             /\ csvOutcome.questions[i].question = Trim(csvRows[k][1])

\* C15 as stated: every data row with fewer than five fields is excluded from
\* the question set and yields the error "Line <n>: Not enough columns (need
\* at least 5: question + 4 answers)", n being the row's 1-based position,
\* the header counted as 1.
C15_ShortRowYieldsError ==
    csvStage = "validated" =>
        /\ QuestionsFromFullRows
        /\ \A k \in 2..Len(csvRows) :
             Len(csvRows[k]) < 5 => HasError(csvOutcome.errors, NotEnoughColumns(k))

\* C15, amended: a data row with fewer than five fields whose first field is
\* not empty is excluded from the question set and yields the error "Line
\* <n>: Not enough columns (need at least 5: question + 4 answers)", n being
\* the row's 1-based position among the rows the parser emitted (the header
\* is 1; blank lines are not counted); a row whose first field is empty is
\* skipped without an error.
C15_ShortRowWithQuestionYieldsError ==
    csvStage = "validated" =>
        /\ QuestionsFromFullRows
        /\ \A k \in 2..Len(csvRows) :
             Len(csvRows[k]) < 5 =>
                 (HasError(csvOutcome.errors, NotEnoughColumns(k)) <=> csvRows[k][1] # "")

\* a short row after a blank line was reported under the number of its row,
\* which is not the number of its line in the text
C15_Witness ==
    /\ csvStage = "validated"
    /\ csvInput = "Question,Correct,W1,W2,W3\n\nQ3,x\n"
    /\ csvOutcome.errors = <<NotEnoughColumns(2)>>
    /\ csvOutcome.questions = <<>>

\* the data rows of rows that are well-formed
ValidRowCount(rows) == Cardinality({ k \in 2..Len(rows) : WellFormedRow(rows[k]) })

\* the number of well-formed data rows of the files of FileChoices
ValidRowsOfFile == [file \in FileChoices |-> ValidRowCount(FileRows[file])]

\* C16 as stated: when fewer rows are accepted than questionsPerRound,
\* validation fails with "Need at least <minRequired> valid questions. Found
\* only <found>."; when at least questionsPerRound rows are accepted it
\* succeeds, rejected rows notwithstanding, and no row error is shown.
C16_MinimumGuard ==
    [][\A file \in FileChoices :
          ReaderLoad(file) =>
              LET found == ValidRowsOfFile[file]
              IN  IF found < homeQuestionsPerRound
                  THEN /\ ~questionsLoaded'
                       /\ uploadError' = {NeedAtLeastMessage(homeQuestionsPerRound, found)}
                  ELSE /\ questionsLoaded'
                       /\ uploadError' = Null
                       /\ Len(uploadedQuestions') = found]_vars

\* C16, amended: when fewer rows are accepted than questionsPerRound,
\* validation fails; if at least one row was accepted the message is "Need
\* at least <minRequired> valid questions. Found only <found>.", while with
\* no accepted row the message is that of the row errors or of the missing
\* data rows. When at least questionsPerRound rows are accepted it succeeds,
\* rejected rows notwithstanding, and no row error is shown.
C16_MinimumGuardAfterAcceptedRow ==
    [][\A file \in FileChoices :
          ReaderLoad(file) =>
              LET found == ValidRowsOfFile[file]
              IN  IF found < homeQuestionsPerRound
                  THEN /\ ~questionsLoaded'
                       /\ uploadError' # Null
                       /\ found > 0 =>
                            uploadError' = {NeedAtLeastMessage(homeQuestionsPerRound, found)}
                  ELSE /\ questionsLoaded'
                       /\ uploadError' = Null
                       /\ Len(uploadedQuestions') = found]_vars

\* a file with one valid and one rejected row was accepted under a minimum
\* of 1 and later refused under a minimum of 2
C16_Witness ==
    /\ ~questionsLoaded
    /\ uploadError = {"Need at least 2 valid questions. Found only 1."}
    /\ Len(uploadedQuestions) = 1
    /\ fileName = {PartialFile.name}

\* the error messages of the rows of a file, in row order
RowErrorsOf == [file \in FileChoices |-> (CHOOSE outcome \in FileOutcomes[file] : TRUE).errors]

\* the message that lists the first three row errors of a file
FirstErrorsOf ==
    [file \in FileChoices |->
        "Errors found:\n"
            \o JoinLines(SubSeq(RowErrorsOf[file], 1, Min(3, Len(RowErrorsOf[file]))))]

\* C17: when no row is accepted and at least one row produced an error,
\* validation fails (questionsLoaded is false) with one message that lists
\* the first min(3, number of errors) row errors in row order; errors after
\* the third are not shown and do not change the outcome.
C17_FirstThreeErrorsReported ==
    [][\A file \in FileChoices :
          (/\ ReaderLoad(file)
           /\ ValidRowsOfFile[file] = 0
           /\ Len(RowErrorsOf[file]) > 0) =>
              /\ ~questionsLoaded'
              /\ uploadError' = {FirstErrorsOf[file]}
              /\ UNCHANGED <<uploadedQuestions, questionCount>>]_vars

\* the file with four rejected rows was refused with its first three errors
C17_Witness ==
    /\ ~questionsLoaded
    /\ fileName = {RejectedFile.name}
    /\ Len(RowErrorsOf[RejectedFile]) = 4
    /\ uploadError =
         {"Errors found:\nLine 2: Not enough columns (need at least 5: question + 4 answers)\nLine 3: Question is empty\nLine 4: Not enough columns (need at least 5: question + 4 answers)"}

\* C18: startGame() has no effect unless questionsLoaded is true, which it is
\* only after a validation that succeeded: a validation that fails leaves
\* questionsLoaded false and stores none of the rows it accepted, a game is
\* shown only from questionsLoaded, and the bank the game component receives
\* is the stored question set of a successful validation.
C18_StartOnlyFromAcceptedSet ==
    [][/\ (StartGame /\ ~questionsLoaded) => UNCHANGED vars
       /\ (gameStarted' /\ ~gameStarted) => questionsLoaded
       /\ \A file \in FileChoices :
            ReaderLoad(file) =>
                IF ValidRowsOfFile[file] >= homeQuestionsPerRound /\ ValidRowsOfFile[file] > 0
                THEN questionsLoaded' /\ Len(uploadedQuestions') = ValidRowsOfFile[file]
                ELSE ~questionsLoaded' /\ UNCHANGED uploadedQuestions
       /\ allQuestions' # allQuestions => allQuestions' = uploadedQuestions]_vars

\* after a game on an accepted file, a file with one valid row was refused
\* under a minimum of 2: the menu is shown and no start is pending
C18_Witness ==
    /\ ~questionsLoaded
    /\ uploadError = {"Need at least 2 valid questions. Found only 1."}
    /\ Len(allQuestions) = 2
    /\ allQuestions = uploadedQuestions
    /\ ~gameStarted
    /\ pendingStarts = 0

\* the positions of the quotes of the text at hand
QuotePositions == { i \in 1..Len(csvInput) : CharAt(csvInput, i) = "\"" }

\* the rows of a text that is one field: none when the field is empty
OneFieldRows(field) == IF field = "" THEN <<>> ELSE << <<field>> >>

\* C19: inside a quoted field commas and row separators are literal: a header
\* followed by "line1\nline2",A,B,C,D parses to one data row of five fields
\* whose first field is line1\nline2. Quoted mode ends only at the next
\* unescaped quote, and a quoted field that is not terminated runs to the end
\* of the input.
C19_QuotedFieldIsLiteral ==
    csvStage = "parsed" =>
        LET n == Len(csvInput)
        IN  /\ csvInput = MultiLineText =>
                 csvRows = << <<"h", "a", "b", "c", "d">>,
                              <<"line1\nline2", "A", "B", "C", "D">> >>
            /\ QuotePositions = {1} => csvRows = OneFieldRows(SubSeq(csvInput, 2, n))
            /\ (n >= 2 /\ QuotePositions = {1, n}) =>
                 csvRows = OneFieldRows(SubSeq(csvInput, 2, n - 1))
            /\ \A p \in 2..(n - 1) :
                 (/\ QuotePositions = {1, p}
                  /\ CharAt(csvInput, p + 1) = ","
                  /\ \A i \in (p + 2)..n : CharAt(csvInput, i) \notin {",", "\n", "\r"}) =>
                     csvRows = IF p = 2 /\ Trim(SubSeq(csvInput, p + 2, n)) = ""
                               THEN <<>>
                               ELSE << <<SubSeq(csvInput, 2, p - 1),
                                          Trim(SubSeq(csvInput, p + 2, n))>> >>

\* an unterminated quoted field with a comma, a line break and a blank in it
\* was parsed
C19_Witness ==
    /\ csvStage = "parsed"
    /\ csvInput = "\",\n "
    /\ csvRows = << <<",\n ">> >>

\* C20: in quoted mode two consecutive quotes give one literal quote and do
\* not end the field: the field content He said ""hi"" parses to
\* He said "hi".
C20_DoubledQuoteIsOneQuote ==
    csvStage = "parsed" =>
        LET n == Len(csvInput)
        IN  /\ csvInput = EscapedQuoteText => csvRows = << <<"He said \"hi\"">> >>
            /\ \A p \in 2..(n - 2) :
                 QuotePositions = {1, p, p + 1, n} =>
                     csvRows = << <<SubSeq(csvInput, 2, p - 1) \o "\""
                                      \o SubSeq(csvInput, p + 2, n - 1)>> >>

\* the quoted field He said ""hi"" was parsed
C20_Witness ==
    /\ csvStage = "parsed"
    /\ csvInput = EscapedQuoteText
    /\ csvRows = << <<"He said \"hi\"">> >>

\* the text at hand holds no quote, comma or row separator
PlainText == \A i \in 1..Len(csvInput) : CharAt(csvInput, i) \notin {"\"", ",", "\n", "\r"}

\* C21: a field that did not start with a quote is emitted without its
\* leading and trailing whitespace, and a field that started with a quote is
\* emitted with the content between its quotes exactly as written, untrimmed.
C21_TrimUnlessQuoted ==
    csvStage = "parsed" =>
        LET n == Len(csvInput)
        IN  /\ PlainText => csvRows = OneFieldRows(Trim(csvInput))
            /\ (n >= 2 /\ QuotePositions = {1, n}) =>
                 csvRows = OneFieldRows(SubSeq(csvInput, 2, n - 1))
            /\ \A p \in 1..(n - 2) :
                 (/\ QuotePositions = {p + 1, n}
                  /\ CharAt(csvInput, p) = ","
                  /\ \A i \in 1..(p - 1) : CharAt(csvInput, i) \notin {",", "\n", "\r"}) =>
                     csvRows = IF Trim(SubSeq(csvInput, 1, p - 1)) = "" /\ p + 2 = n
                               THEN <<>>
                               ELSE << <<Trim(SubSeq(csvInput, 1, p - 1)),
                                          SubSeq(csvInput, p + 2, n - 1)>> >>

\* the record of the round: its counts, its expiry flag and its selections
roundRecord == <<currentRoundCorrect, currentRoundTotal, timeExpired, questionSets>>

\* C22: a round is finalized once: from a Complete round, every step that
\* neither starts a round nor leaves the game for the menu (every tick,
\* selectAnswer and Submit is such a step) keeps the round's correctCount,
\* totalCount, timeExpired flag and selections; and no round is both
\* submitted and timed out.
C22_FinalizedOnce ==
    /\ [](~(timeExpired /\ showCongratulations))
    /\ [][(roundComplete /\ roundComplete' /\ (gameStarted => gameStarted')) =>
             UNCHANGED roundRecord]_vars

\* a submitted round of two questions, both answered, with time left on the
\* clock and no countdown armed
C22_Witness ==
    /\ Playing
    /\ roundComplete /\ ~timeExpired /\ showCongratulations
    /\ currentRoundTotal = 2
    /\ timeRemaining > 0
    /\ liveIntervals = {}

\* C24: a round that ended by timer expiry has correctCount 0 and totalCount
\* 0, whatever answers had been selected before the expiry.
C24_TimedOutRoundScoresZero ==
    timeExpired => currentRoundCorrect = 0 /\ currentRoundTotal = 0

\* a timed-out round in which every question had been answered, one of them
\* correctly
C24_Witness ==
    /\ roundComplete /\ timeExpired
    /\ Len(questionSets) = 2
    /\ EveryQuestionAnswered
    /\ RoundScore > 0

\* C23: while a round is Active its question set and selections change only
\* through selectAnswer, and the question bank does not change: no
\* asynchronous completion replaces or restarts an Active round.
C23_ActiveRoundChangesOnlyBySelect ==
    [][RoundActive =>
         /\ allQuestions' = allQuestions
         /\ questionSets' # questionSets =>
              \E q \in 1..Len(questionSets), a \in AnswerChoices : SelectAnswer(q, a)]_vars

\* C25: every question of the game's bank, whether it came from an upload or
\* from the built-in question file, has exactly 4 answers and a correct index
\* that is an integer in [0,3].
C25_BankQuestionsWellFormed ==
    \A b \in 1..Len(allQuestions) :
        /\ Len(allQuestions[b].answers) = 4
        /\ \E n \in 0..3 : allQuestions[b].correct = Num(n)

\* the error of a row with a blank question that names line n
QuestionIsEmpty(n) == "Line " \o ToString(n) \o ": Question is empty"

\* every question has a text, and there are no more questions than rows of at
\* least five fields whose first field is not blank
QuestionsHaveText ==
    /\ Len(csvOutcome.questions)
           <= Cardinality({ k \in 2..Len(csvRows) :
                              Len(csvRows[k]) >= 5 /\ Trim(csvRows[k][1]) # "" })
    /\ \A i \in 1..Len(csvOutcome.questions) : csvOutcome.questions[i].question # ""

\* C26 as stated: a data row with at least five fields whose question text
\* (field 0) is empty yields the error "Line <n>: Question is empty" and is
\* excluded from the question set.
C26_EmptyQuestionYieldsError ==
    csvStage = "validated" =>
        /\ QuestionsHaveText
        /\ \A k \in 2..Len(csvRows) :
             (Len(csvRows[k]) >= 5 /\ Trim(csvRows[k][1]) = "") =>
                 HasError(csvOutcome.errors, QuestionIsEmpty(k))

\* C26, amended: a data row with at least five fields whose field 0 is not
\* the empty string but is blank once trimmed (a quoted field of whitespace)
\* yields the error "Line <n>: Question is empty" and is excluded from the
\* question set; a row whose field 0 is the empty string is excluded without
\* any error.
C26_BlankQuestionYieldsError ==
    csvStage = "validated" =>
        /\ QuestionsHaveText
        /\ \A k \in 2..Len(csvRows) :
             (Len(csvRows[k]) >= 5 /\ Trim(csvRows[k][1]) = "") =>
                 (HasError(csvOutcome.errors, QuestionIsEmpty(k)) <=> csvRows[k][1] # "")

\* a row with an empty question was passed over in silence and the row after
\* it, whose question is a quoted blank, was reported
C26_Witness ==
    /\ csvStage = "validated"
    /\ Len(csvRows) = 3
    /\ csvRows[2] = <<"", "a", "b", "c", "d">>
    /\ csvRows[3] = <<" ", "a", "b", "c", "d">>
    /\ csvOutcome.errors = <<QuestionIsEmpty(3)>>
    /\ csvOutcome.questions = <<>>

\* the row fails one of the checks of the column count, the correct answer
\* and the wrong answers
FailsRowCheck(parts) ==
    \/ Len(parts) < 5
    \/ Trim(parts[2]) = ""
    \/ \E w \in 3..5 : Trim(parts[w]) = ""

\* the error messages that name line n
ErrorsNaming(errors, n) ==
    LET prefix == "Line " \o ToString(n) \o ": "
    IN  { e \in 1..Len(errors) :
            Len(errors[e]) >= Len(prefix) /\ SubSeq(errors[e], 1, Len(prefix)) = prefix }

\* the position in rows of the i-th well-formed data row
WellFormedRowAt(rows, i) ==
    CHOOSE k \in 2..Len(rows) :
        /\ WellFormedRow(rows[k])
        /\ Cardinality({ j \in 2..k : WellFormedRow(rows[j]) }) = i

\* the accepted questions are the well-formed rows, in input order
AcceptedAreWellFormedRowsInOrder ==
    /\ Len(csvOutcome.questions) = ValidRowCount(csvRows)
    /\ \A i \in 1..Len(csvOutcome.questions) :
         LET parts == csvRows[WellFormedRowAt(csvRows, i)]
         IN  /\ csvOutcome.questions[i].question = Trim(parts[1])
             /\ SameTexts(csvOutcome.questions[i].answers,
                          <<Trim(parts[2]), Trim(parts[3]), Trim(parts[4]), Trim(parts[5])>>)

\* C27 as stated: a row that fails a check (too few columns, empty correct
\* answer, an empty wrong answer) adds exactly one error message naming its
\* line and is skipped, validation goes on with the following rows, and the
\* accepted questions are exactly the well-formed rows in input order.
C27_RowErrorsNonFatal ==
    csvStage = "validated" =>
        /\ AcceptedAreWellFormedRowsInOrder
        /\ \A k \in 2..Len(csvRows) :
             FailsRowCheck(csvRows[k]) =>
                 Cardinality(ErrorsNaming(csvOutcome.errors, k)) = 1

\* C27, amended: a row whose first field is not empty and that fails a check
\* (too few columns, blank question, empty correct answer, an empty wrong
\* answer) adds exactly one error message, which names the row's position
\* among the parsed rows, and is skipped; a row whose first field is empty
\* and a well-formed row add none; validation goes on with the following
\* rows, and the accepted questions are exactly the well-formed rows in input
\* order.
C27_ReportedRowErrorsNonFatal ==
    csvStage = "validated" =>
        /\ AcceptedAreWellFormedRowsInOrder
        /\ \A k \in 2..Len(csvRows) :
             Cardinality(ErrorsNaming(csvOutcome.errors, k))
                 = IF csvRows[k][1] # "" /\ ~WellFormedRow(csvRows[k]) THEN 1 ELSE 0
        /\ Len(csvOutcome.errors)
               = Cardinality({ k \in 2..Len(csvRows) :
                                 csvRows[k][1] # "" /\ ~WellFormedRow(csvRows[k]) })

\* a short row was reported and the well-formed row after it was accepted
C27_Witness ==
    /\ csvStage = "validated"
    /\ Len(csvRows) = 3
    /\ csvRows[2] = <<"Q3", "x">>
    /\ csvRows[3] = <<"Q1", "a", "b", "c", "d">>
    /\ csvOutcome.errors = <<NotEnoughColumns(2)>>
    /\ Len(csvOutcome.questions) = 1
    /\ csvOutcome.questions[1].question = "Q1"

\* C28: a validation that fails discards previously accepted data: after it
\* the stored question set is empty and questionCount is 0, so neither holds
\* the questions of an earlier successful upload.
C28_FailureDiscardsAcceptedData ==
    [][\A file \in FileChoices :
          (ReaderLoad(file) /\ ~questionsLoaded') =>
              uploadedQuestions' = <<>> /\ questionCount' = 0]_vars

\* C29: in every interleaving of file selections and file-read completions,
\* whenever questionsLoaded is true the fileName is not null and the stored
\* questions are an outcome of validating the file of that name; a file
\* without a .csv name is never read.
C29_LoadedQuestionsAreOfNamedFile ==
    /\ \A file \in pendingReads : HasCsvName[file]
    /\ questionsLoaded =>
         /\ fileName # Null
         /\ \E file \in FileChoices :
              /\ fileName = {file.name}
              /\ \E outcome \in FileOutcomes[file] : uploadedQuestions = outcome.questions

\* inQuotes when the character loop of parseCSV, at the start of a field at
\* position i, has reached the end of the text
RECURSIVE InQuotesAtEndFrom(_, _)
InQuotesAtEndFrom(t, i) ==
    LET scanned == ScanField(t, i, "", FALSE, FALSE)
    IN  IF scanned.end = "input" THEN scanned.inQuotes
        ELSE InQuotesAtEndFrom(t, scanned.next)

\* the text ends inside a quoted field
EndsInsideQuotedField(t) == InQuotesAtEndFrom(t, 1)

\* C30: the last field and row are flushed at the end of the input: for every
\* text that does not end inside a quoted field, the text and the text with
\* one newline appended parse to the same rows.
C30_TrailingNewlineIsNeutral ==
    (csvStage = "parsed" /\ ~EndsInsideQuotedField(csvInput)) =>
        ParseCSV(csvInput \o "\n") = csvRows

\* a text of one row of two fields without a final newline was parsed to that
\* row
C30_Witness ==
    /\ csvStage = "parsed"
    /\ csvInput = "a,a"
    /\ csvRows = << <<"a", "a">> >>
    /\ ParseCSV("a,a\n") = csvRows

\* the text at hand holds only separators and blanks
OnlySeparatorsAndBlanks ==
    \A i \in 1..Len(csvInput) : CharAt(csvInput, i) \in {",", "\n", "\r", " "}

\* C31: no emitted row is entirely empty: every row of the parser's output
\* has a field of non-zero length, and a text of only separators and blanks
\* (blank lines among them) gives no row.
C31_NoEmptyRowEmitted ==
    csvStage # "text" =>
        /\ \A k \in 1..Len(csvRows) :
             \E f \in 1..Len(csvRows[k]) : Len(csvRows[k][f]) > 0
        /\ OnlySeparatorsAndBlanks => csvRows = <<>>

\* a text with a blank line between its header and its data line was parsed
\* to two rows, the blank line giving none
C31_Witness ==
    /\ csvStage = "parsed"
    /\ csvInput = "Question,Correct,W1,W2,W3\n\n,x\n"
    /\ Len(csvRows) = 2
    /\ csvRows[2] = <<"", "x">>

\* C32: in every reachable state timeExpired implies roundComplete, and
\* showCongratulations implies roundComplete and not timeExpired; the key
\* handler advances the round only from a submitted round.
C32_FlagsImplyComplete ==
    /\ [](timeExpired => roundComplete)
    /\ [](showCongratulations => (roundComplete /\ ~timeExpired))
    /\ [][(currentRound' # currentRound /\ \E key \in KeyChoices : HandleKeyDown(key)) =>
             (roundComplete /\ ~timeExpired)]_vars

\* the second round, started after a submitted round, has timed out with an
\* answer selected
C32_Witness ==
    /\ currentRound = 2
    /\ cumulativeTotal > 0
    /\ timeExpired /\ roundComplete /\ ~showCongratulations
    /\ \E q \in 1..Len(questionSets) : questionSets[q].selected # Null

\* C33: while the ticks keep firing and no advance to a new round is
\* requested, every Active round eventually is Complete, by submission or by
\* timeout, unless leaving the game has cancelled its countdown; and the
\* remaining time is never below zero.
C33_ActiveRoundEventuallyComplete ==
    /\ [](timeRemaining >= 0)
    /\ RoundActive ~> (roundComplete \/ timerInterval = 0)

\* a round in which nothing was selected has been ended by the ticks alone,
\* at a remaining time of zero
C33_Witness ==
    /\ lifecycle = "initialized"
    /\ roundComplete /\ timeExpired
    /\ timeRemaining = 0
    /\ timerInterval = 0
    /\ Len(questionSets) > 0
    /\ \A q \in 1..Len(questionSets) : questionSets[q].selected = Null

====
